---- MODULE Spec2Model ----
(***************************************************************************)
(* Model of the token-swap form (SwapForm / CurrencyInput) and of the      *)
(* wallet-balance list (WalletPage, refactored version).                   *)
(*                                                                         *)
(* JavaScript values are represented as follows:                           *)
(*   - a string is a tuple of one-character strings, "" is << >>;          *)
(*   - a number is a record [n |-> numerator, d |-> denominator]: a        *)
(*     fraction in lowest terms with d > 0 when it is finite, and the      *)
(*     records NaN and Infinity (d = 0) otherwise;                         *)
(*   - undefined / null / a missing field is Undefined where a string is   *)
(*     expected, UndefinedNumber where a number is, Null where a token is. *)
(***************************************************************************)
EXTENDS Integers, Sequences, FiniteSets, TLC

VARIABLES
    \* WalletPage
    balances,            \* useWalletBalances()
    prices,              \* usePrices()
    formattedBalances,   \* useMemo result rendered as rows
    \* SwapForm
    tokens, loading, fromToken, toToken, fromAmount, toAmount, error,
    swapAnimation,
    timers,              \* pending setTimeout callbacks with their closures
    fetchState,          \* "pending" | "done" | "failed"
    data,                \* the body of the feed response
    lastEvent,           \* the last DOM event handled and what it did
    events,              \* number of user events handled so far
    \* calculateExchange applied on its own
    calcArgs, calcResult,
    \* the pipeline run again and again on one input
    snapshot,            \* the raw feed, the balances and the price table
    runs                 \* the output of each run so far

walletVars == <<balances, prices, formattedBalances>>
formVars == <<tokens, loading, fromToken, toToken, fromAmount, toAmount, error,
              swapAnimation, timers, fetchState, data, lastEvent, events>>
calcVars == <<calcArgs, calcResult>>
pipeVars == <<snapshot, runs>>
vars == <<walletVars, formVars, calcVars, pipeVars>>

----------------------------------------------------------------------------
(* Bounds of the model *)

MaxBalances == 3

MaxFeed == 3

MaxFormFeed == 3

MaxPending == 2

MaxEvents == 4

MaxSnapshot == 2

MaxRuns == 2

----------------------------------------------------------------------------
(* JavaScript values *)

Undefined == <<"undefined">>

NaN == [n |-> 0, d |-> 0]

Infinity == [n |-> 1, d |-> 0]

UndefinedNumber == [n |-> 0, d |-> -1]

Num(k) == [n |-> k, d |-> 1]

EmptyString == << >>

Digits == {"0", "1", "2", "3", "4", "5", "6", "7", "8", "9"}

DigitChars == <<"0", "1", "2", "3", "4", "5", "6", "7", "8", "9">>

DigitValue(c) == (CHOOSE i \in 1..10 : DigitChars[i] = c) - 1

RECURSIVE Pow10(_)
Pow10(k) == IF k = 0 THEN 1 ELSE 10 * Pow10(k - 1)

RECURSIVE GCD(_, _)
GCD(a, b) == IF b = 0 THEN a ELSE GCD(b, a % b)

Abs(x) == IF x < 0 THEN -x ELSE x

\* the fraction n/d in lowest terms, d > 0
Frac(n, d) ==
    LET g == GCD(Abs(n), d)
    IN  IF n = 0 THEN [n |-> 0, d |-> 1] ELSE [n |-> n \div g, d |-> d \div g]

\* x * y on finite numbers, cancelling across before multiplying
FracTimes(x, y) ==
    LET g1 == GCD(Abs(x.n), y.d)
        g2 == GCD(Abs(y.n), x.d)
    IN  IF x.n = 0 \/ y.n = 0 THEN [n |-> 0, d |-> 1]
        ELSE [n |-> (x.n \div g1) * (y.n \div g2), d |-> (x.d \div g2) * (y.d \div g1)]

\* x / y in JavaScript: division by zero gives Infinity, 0/0 gives NaN
FracDivide(x, y) ==
    IF y.n = 0 THEN (IF x.n = 0 THEN NaN ELSE Infinity)
    ELSE IF y.n > 0 THEN FracTimes(x, [n |-> y.d, d |-> y.n])
    ELSE FracTimes(x, [n |-> -y.d, d |-> -y.n])

\* the decimal digits of a natural number, as a string
RECURSIVE NatToString(_)
NatToString(k) ==
    IF k < 10 THEN <<DigitChars[k + 1]>>
    ELSE NatToString(k \div 10) \o <<DigitChars[(k % 10) + 1]>>

\* the digits of k, left-padded with zeros to width w
RECURSIVE PadDigits(_, _)
PadDigits(k, w) ==
    IF w = 0 THEN << >>
    ELSE PadDigits(k \div 10, w - 1) \o <<DigitChars[(k % 10) + 1]>>

NaNString == <<"N", "a", "N">>

InfinityString == <<"I", "n", "f", "i", "n", "i", "t", "y">>

\* Number.prototype.toFixed(f): the nearest decimal with f fractional digits
\* (the larger one when two are as near), "NaN" and "Infinity" for those
ToFixed(x, f) ==
    IF x = NaN THEN NaNString
    ELSE IF x = Infinity THEN InfinityString
    ELSE LET s == FracTimes([n |-> Abs(x.n), d |-> x.d], [n |-> Pow10(f), d |-> 1])
             r == (2 * s.n + s.d) \div (2 * s.d)
         IN  (IF x.n < 0 THEN <<"-">> ELSE << >>)
             \o NatToString(r \div Pow10(f)) \o <<".">> \o PadDigits(r % Pow10(f), f)

\* length of the longest run of digits of s starting at position i
RECURSIVE DigitRun(_, _)
DigitRun(s, i) ==
    IF i <= Len(s) /\ s[i] \in Digits THEN 1 + DigitRun(s, i + 1) ELSE 0

\* the natural number written by the digits s[i..i+k-1]
RECURSIVE DigitsToNat(_, _, _)
DigitsToNat(s, i, k) ==
    IF k = 0 THEN 0
    ELSE 10 * DigitsToNat(s, i, k - 1) + DigitValue(s[i + k - 1])

\* parseFloat: the longest prefix  [+-]? digits* [. digits*]  with at least
\* one digit; NaN when there is none (exponents and the literal Infinity are
\* not modelled and do not occur in the inputs of the model)
parseFloat(s) ==
    IF s = Undefined THEN NaN
    ELSE
    LET signed == Len(s) >= 1 /\ s[1] \in {"-", "+"}
        start == IF signed THEN 2 ELSE 1
        ni == DigitRun(s, start)
        dot == start + ni
        nf == IF dot <= Len(s) /\ s[dot] = "." THEN DigitRun(s, dot + 1) ELSE 0
        mag == Frac(DigitsToNat(s, start, ni) * Pow10(nf) + DigitsToNat(s, dot + 1, nf),
                    Pow10(nf))
    IN  IF ni = 0 /\ nf = 0 THEN NaN
        ELSE IF signed /\ s[1] = "-" THEN [mag EXCEPT !.n = -mag.n]
        ELSE mag

\* x > 0 in JavaScript (false for NaN)
GreaterThanZero(x) == x # NaN /\ x.n > 0

\* x <= 0 in JavaScript (false for NaN)
AtMostZero(x) == x # NaN /\ x.n <= 0

\* truthiness of a string or of a missing value
Truthy(s) == s # Undefined /\ s # EmptyString

\* x * y in JavaScript; undefined converts to NaN
JsTimes(x, y) ==
    IF x \in {NaN, UndefinedNumber} \/ y \in {NaN, UndefinedNumber} THEN NaN
    ELSE IF x = Infinity \/ y = Infinity
         THEN (IF x.n = 0 \/ y.n = 0 THEN NaN ELSE Infinity)
    ELSE FracTimes(x, y)

\* x / y in JavaScript; undefined converts to NaN
JsDivide(x, y) ==
    IF x \in {NaN, UndefinedNumber} \/ y \in {NaN, UndefinedNumber} THEN NaN
    ELSE IF x = Infinity THEN (IF y = Infinity THEN NaN ELSE Infinity)
    ELSE IF y = Infinity THEN Num(0)
    ELSE FracDivide(x, y)

\* x > y in JavaScript (false when either is NaN)
JsGreater(x, y) ==
    /\ x \notin {NaN, UndefinedNumber}
    /\ y \notin {NaN, UndefinedNumber}
    /\ x # y
    /\ \/ x = Infinity
       \/ y # Infinity /\ x.n * y.d > y.n * x.d

\* truthiness of a number or of a missing value
TruthyNumber(x) == x \notin {NaN, UndefinedNumber} /\ x.n # 0

\* x ?? y
NullishOr(x, y) == IF x = UndefinedNumber THEN y ELSE x

----------------------------------------------------------------------------
(* WalletPage: the balance list *)

BLOCKCHAIN_PRIORITIES ==
    [Osmosis |-> 100, Ethereum |-> 50, Arbitrum |-> 30, Zilliqa |-> 20, Neo |-> 20]

\* inputs of the model: the blockchains, currencies, amounts and prices
\* that the hooks may deliver
BlockchainInputs ==
    {"Osmosis", "Ethereum", "Arbitrum", "Zilliqa", "Neo", "Unknown"}

WalletCurrencies == {"ETH"}

WalletAmounts == {Num(-1), Num(0), Num(2)}

WalletPrices == {UndefinedNumber, Num(3)}

BalanceInputs ==
    [blockchain : BlockchainInputs, currency : WalletCurrencies, amount : WalletAmounts]

getPriority(blockchain) ==
    IF blockchain \in DOMAIN BLOCKCHAIN_PRIORITIES
    THEN BLOCKCHAIN_PRIORITIES[blockchain]
    ELSE -99

\* .map((balance) => ({...balance, priority: getPriority(balance.blockchain)}))
withPriority(balance) ==
    [blockchain |-> balance.blockchain, currency |-> balance.currency,
     amount |-> balance.amount, priority |-> getPriority(balance.blockchain)]

\* the inverted test of the original code: keeps amount <= 0
keepBalanceInverted(balance) ==
    balance.priority > -99 /\ AtMostZero(balance.amount)

\* .filter((balance) => balance.priority > -99 && balance.amount > 0)
keepBalance(balance) ==
    balance.priority > -99 /\ GreaterThanZero(balance.amount)

\* a comparator that never answers 0: equal priorities are exchanged
comparatorNoTie(a, b) == IF b.priority >= a.priority THEN 1 ELSE -1

\* a comparator in ascending order
comparatorAscending(a, b) == a.priority - b.priority

\* .sort((a, b) => b.priority - a.priority)
comparator(a, b) == b.priority - a.priority

\* Array.prototype.sort is stable: x is placed after the last element that
\* the comparator does not order after it
RECURSIVE insertPosition(_, _, _)
insertPosition(sorted, x, j) ==
    IF j = 0 THEN 0
    ELSE IF comparator(sorted[j], x) > 0 THEN insertPosition(sorted, x, j - 1)
    ELSE j

RECURSIVE sortBalances(_)
sortBalances(s) ==
    IF s = << >> THEN << >>
    ELSE LET n == Len(s)
             sorted == sortBalances(SubSeq(s, 1, n - 1))
             k == insertPosition(sorted, s[n], n - 1)
         IN  SubSeq(sorted, 1, k) \o <<s[n]>> \o SubSeq(sorted, k + 1, n - 1)

\* usdValue without the ?? 0 of the refactoring
usdValueNoDefault(balance, priceTable) ==
    JsTimes(priceTable[balance.currency], balance.amount)

\* (prices[balance.currency] ?? 0) * balance.amount
usdValue(balance, priceTable) ==
    JsTimes(NullishOr(priceTable[balance.currency], Num(0)), balance.amount)

\* .map((balance) => ({...balance, formatted: ..., usdValue: ...}))
formatBalance(balance, priceTable) ==
    [blockchain |-> balance.blockchain, currency |-> balance.currency,
     amount |-> balance.amount, priority |-> balance.priority,
     formatted |-> ToFixed(balance.amount, 8),
     usdValue |-> usdValue(balance, priceTable)]

\* the three stages up to the sort
sortedSurvivors(bs) ==
    sortBalances(SelectSeq([i \in 1..Len(bs) |-> withPriority(bs[i])], keepBalance))

\* the useMemo body
computeFormattedBalances(bs, priceTable) ==
    LET sorted == sortedSurvivors(bs)
    IN  [i \in 1..Len(sorted) |-> formatBalance(sorted[i], priceTable)]

\* useWalletBalances() delivers a list with one more balance; the memo is
\* recomputed in the same render
BalancesChange(b) ==
    /\ Len(balances) < MaxBalances
    /\ balances' = Append(balances, b)
    /\ formattedBalances' = computeFormattedBalances(balances', prices)
    /\ UNCHANGED prices
    /\ UNCHANGED <<formVars, calcVars, pipeVars>>

\* usePrices() delivers a table with one price changed
PricesChange(c, p) ==
    /\ prices[c] # p
    /\ prices' = [prices EXCEPT ![c] = p]
    /\ formattedBalances' = computeFormattedBalances(balances, prices')
    /\ UNCHANGED balances
    /\ UNCHANGED <<formVars, calcVars, pipeVars>>

InitWallet ==
    /\ balances = << >>
    /\ prices = [c \in WalletCurrencies |-> UndefinedNumber]
    /\ formattedBalances = << >>

NextWallet ==
    \/ \E b \in BalanceInputs : BalancesChange(b)
    \/ \E c \in WalletCurrencies, p \in WalletPrices : PricesChange(c, p)

----------------------------------------------------------------------------
(* SwapForm: the feed *)

\* stands for a date string that new Date() cannot parse
InvalidDate == 99

\* new Date(item.date), as the number the comparison converts it to
DateValue(date) == IF date = InvalidDate THEN NaN ELSE Num(date)

\* a.localeCompare(b) on the currencies of the model
LocaleOrder == <<"ETH", "SWTH", "USDC">>

localeRank(c) == CHOOSE i \in 1..Len(LocaleOrder) : LocaleOrder[i] = c

localeCompare(a, b) == localeRank(a) - localeRank(b)

\* item.price && parseFloat(item.price) > 0, without the > 0
validPriceAnySign(item) == Truthy(item.price) /\ parseFloat(item.price) # NaN

\* item.price && parseFloat(item.price) > 0
validPrice(item) == Truthy(item.price) /\ GreaterThanZero(parseFloat(item.price))

\* index of the entry of priceMap with this key, 0 when there is none
RECURSIVE keyIndex(_, _, _)
keyIndex(map, key, i) ==
    IF i > Len(map) THEN 0
    ELSE IF map[i].currency = key THEN i
    ELSE keyIndex(map, key, i + 1)

\* the body of data.forEach on one item; priceMap is kept as the list of
\* its values in insertion order (the order of Object.values)
priceMapStep(map, item) ==
    IF ~validPrice(item) THEN map
    ELSE LET idx == keyIndex(map, item.currency, 1)
         IN  IF idx = 0 THEN Append(map, item)
             ELSE IF JsGreater(DateValue(item.date), DateValue(map[idx].date))
                  THEN [map EXCEPT ![idx] = item]
             ELSE map

RECURSIVE buildPriceMap(_)
buildPriceMap(d) ==
    IF d = << >> THEN << >>
    ELSE priceMapStep(buildPriceMap(SubSeq(d, 1, Len(d) - 1)), d[Len(d)])

\* tokensWithPrices.push({currency, price: parseFloat(item.price)})
pricedToken(item) == [currency |-> item.currency, price |-> parseFloat(item.price)]

RECURSIVE tokenInsertPosition(_, _, _)
tokenInsertPosition(sorted, x, j) ==
    IF j = 0 THEN 0
    ELSE IF localeCompare(sorted[j].currency, x.currency) > 0
         THEN tokenInsertPosition(sorted, x, j - 1)
    ELSE j

\* tokensWithPrices.sort((a, b) => a.currency.localeCompare(b.currency))
RECURSIVE sortTokens(_)
sortTokens(s) ==
    IF s = << >> THEN << >>
    ELSE LET n == Len(s)
             sorted == sortTokens(SubSeq(s, 1, n - 1))
             k == tokenInsertPosition(sorted, s[n], n - 1)
         IN  SubSeq(sorted, 1, k) \o <<s[n]>> \o SubSeq(sorted, k + 1, n - 1)

\* the token list fetchPrices installs for a feed
tokensWithPrices(d) ==
    LET map == buildPriceMap(d)
    IN  sortTokens([i \in 1..Len(map) |-> pricedToken(map[i])])

Null == [currency |-> "null", price |-> UndefinedNumber]

\* list.find((t) => t.currency === c) || fallback
findOr(list, c, fallback) ==
    IF \E i \in 1..Len(list) : list[i].currency = c
    THEN list[CHOOSE i \in 1..Len(list) : list[i].currency = c]
    ELSE fallback

----------------------------------------------------------------------------
(* SwapForm: state and handlers *)

FailedToLoad == "Failed to load token prices. Please try again later."

InvalidAmount == "Please enter a valid amount"

SelectBoth == "Please select both tokens"

Event(type, side, value, result) ==
    [type |-> type, side |-> side, value |-> value, result |-> result]

\* calculateExchange without the test of to.price
calculateExchangeNoTargetCheck(amount, from, to) ==
    IF ~Truthy(amount) \/ from = Null \/ to = Null \/ ~TruthyNumber(from.price)
    THEN EmptyString
    ELSE LET numAmount == parseFloat(amount)
         IN  IF numAmount = NaN \/ AtMostZero(numAmount) THEN EmptyString
             ELSE ToFixed(JsDivide(JsTimes(numAmount, from.price), to.price), 6)

calculateExchange(amount, from, to) ==
    IF \/ ~Truthy(amount)
       \/ from = Null
       \/ to = Null
       \/ ~TruthyNumber(from.price)
       \/ ~TruthyNumber(to.price)
    THEN EmptyString
    ELSE LET numAmount == parseFloat(amount)
         IN  IF numAmount = NaN \/ AtMostZero(numAmount) THEN EmptyString
             ELSE ToFixed(JsDivide(JsTimes(numAmount, from.price), to.price), 6)

\* /^\d*\.?\d*$/.test(value)
regexTest(value) ==
    LET ni == DigitRun(value, 1)
        afterDot == IF ni + 1 <= Len(value) /\ value[ni + 1] = "." THEN ni + 2 ELSE ni + 1
    IN  afterDot + DigitRun(value, afterDot) = Len(value) + 1

\* a mask that also lets a leading minus sign through
acceptsAmountSigned(value) ==
    \/ value = EmptyString
    \/ regexTest(value)
    \/ Len(value) >= 1 /\ value[1] = "-" /\ regexTest(SubSeq(value, 2, Len(value)))

\* value === "" || /^\d*\.?\d*$/.test(value)
acceptsAmount(value) == value = EmptyString \/ regexTest(value)

\* a form whose handlers are reachable while the spinner is shown
UserEventWhileLoading ==
    /\ events < MaxEvents
    /\ events' = events + 1

\* a user event is handled: the model follows MaxEvents of them
UserEvent ==
    /\ ~loading
    /\ events < MaxEvents
    /\ events' = events + 1

\* the response arrives and is normalised (fetchPrices, try branch)
FetchSucceeds(d) ==
    /\ fetchState = "pending"
    /\ data' = d
    /\ tokens' = tokensWithPrices(d)
    /\ IF Len(tokens') >= 2
       THEN /\ fromToken' = findOr(tokens', "USDC", tokens'[1])
            /\ toToken' = findOr(tokens', "SWTH", tokens'[2])
       ELSE UNCHANGED <<fromToken, toToken>>
    /\ loading' = FALSE
    /\ fetchState' = "done"
    /\ lastEvent' = Event("fetch", "-", EmptyString, "done")
    /\ UNCHANGED <<fromAmount, toAmount, error, swapAnimation, timers, events>>
    /\ UNCHANGED <<walletVars, calcVars, pipeVars>>

\* the request or its decoding throws (fetchPrices, catch branch)
FetchFails ==
    /\ fetchState = "pending"
    /\ error' = FailedToLoad
    /\ loading' = FALSE
    /\ fetchState' = "failed"
    /\ lastEvent' = Event("fetch", "-", EmptyString, "failed")
    /\ UNCHANGED <<data, tokens, fromToken, toToken, fromAmount, toAmount,
                   swapAnimation, timers, events>>
    /\ UNCHANGED <<walletVars, calcVars, pipeVars>>

handleFromAmountChange(value) ==
    /\ fromAmount' = value
    /\ error' = ""
    /\ IF Truthy(value) /\ fromToken # Null /\ toToken # Null
       THEN toAmount' = calculateExchange(value, fromToken, toToken)
       ELSE toAmount' = EmptyString

handleToAmountChange(value) ==
    /\ toAmount' = value
    /\ error' = ""
    /\ IF Truthy(value) /\ fromToken # Null /\ toToken # Null
       THEN fromAmount' = calculateExchange(value, toToken, fromToken)
       ELSE fromAmount' = EmptyString

\* CurrencyInput.handleAmountChange on the input of one side; the input is
\* controlled (value={amount}), so a change event carries another value
AmountInput(side, value) ==
    /\ UserEvent
    /\ value # (IF side = "from" THEN fromAmount ELSE toAmount)
    /\ IF acceptsAmount(value)
       THEN /\ IF side = "from" THEN handleFromAmountChange(value)
                                ELSE handleToAmountChange(value)
            /\ lastEvent' = Event("input", side, value, "forwarded")
       ELSE /\ UNCHANGED <<fromAmount, toAmount, error>>
            /\ lastEvent' = Event("input", side, value, "rejected")
    /\ UNCHANGED <<data, tokens, loading, fromToken, toToken, swapAnimation,
                   timers, fetchState>>
    /\ UNCHANGED <<walletVars, calcVars, pipeVars>>

\* click on the direction button: the callback closes over this render
handleSwapTokens ==
    /\ UserEvent
    /\ Len(timers) < MaxPending
    /\ swapAnimation' = TRUE
    /\ timers' = Append(timers, [fromToken |-> fromToken, toToken |-> toToken,
                                 fromAmount |-> fromAmount, toAmount |-> toAmount])
    /\ lastEvent' = Event("swapClick", "-", EmptyString, "scheduled")
    /\ UNCHANGED <<data, tokens, loading, fromToken, toToken, fromAmount, toAmount,
                   error, fetchState>>
    /\ UNCHANGED <<walletVars, calcVars, pipeVars>>

\* the oldest 300 ms timer fires
SwapTimerFires ==
    /\ timers # << >>
    /\ LET c == Head(timers)
       IN  /\ fromToken' = c.toToken
           /\ toToken' = c.fromToken
           /\ fromAmount' = c.toAmount
           /\ toAmount' = c.fromAmount
    /\ swapAnimation' = FALSE
    /\ timers' = Tail(timers)
    /\ lastEvent' = Event("timer", "-", EmptyString, "swapped")
    /\ UNCHANGED <<data, tokens, loading, error, fetchState, events>>
    /\ UNCHANGED <<walletVars, calcVars, pipeVars>>

handleFromTokenChange(token) ==
    /\ IF token.currency = toToken.currency
       THEN toToken' = fromToken
       ELSE UNCHANGED toToken
    /\ fromToken' = token
    /\ IF Truthy(fromAmount)
       THEN toAmount' = calculateExchange(fromAmount, token, toToken)
       ELSE UNCHANGED toAmount
    /\ UNCHANGED fromAmount

\* a target change that clears the source when the chosen token is on it
handleToTokenChangeClearing(token) ==
    /\ IF token.currency = fromToken.currency
       THEN fromToken' = Null
       ELSE UNCHANGED fromToken
    /\ toToken' = token
    /\ IF Truthy(fromAmount)
       THEN toAmount' = calculateExchange(fromAmount, fromToken, token)
       ELSE UNCHANGED toAmount
    /\ UNCHANGED fromAmount

handleToTokenChange(token) ==
    /\ IF token.currency = fromToken.currency
       THEN fromToken' = toToken
       ELSE UNCHANGED fromToken
    /\ toToken' = token
    /\ IF Truthy(fromAmount)
       THEN toAmount' = calculateExchange(fromAmount, fromToken, token)
       ELSE UNCHANGED toAmount
    /\ UNCHANGED fromAmount

\* CurrencyInput.handleTokenSelect on the dropdown of one side
TokenSelect(side, i) ==
    /\ UserEvent
    /\ i \in 1..Len(tokens)
    /\ IF side = "from" THEN handleFromTokenChange(tokens[i])
                        ELSE handleToTokenChange(tokens[i])
    /\ lastEvent' = Event("tokenChange", side, EmptyString, tokens[i].currency)
    /\ UNCHANGED <<data, tokens, loading, error, swapAnimation, timers, fetchState>>
    /\ UNCHANGED <<walletVars, calcVars, pipeVars>>

\* handleSwap with the amount test on emptiness only
handleSwapNoSignCheck ==
    /\ IF ~Truthy(fromAmount)
       THEN /\ error' = InvalidAmount
            /\ lastEvent' = Event("submit", "-", fromAmount, "invalid")
            /\ UNCHANGED <<fromAmount, toAmount>>
       ELSE IF fromToken = Null \/ toToken = Null
       THEN /\ error' = SelectBoth
            /\ lastEvent' = Event("submit", "-", fromAmount, "unselected")
            /\ UNCHANGED <<fromAmount, toAmount>>
       ELSE /\ fromAmount' = EmptyString
            /\ toAmount' = EmptyString
            /\ error' = ""
            /\ lastEvent' = Event("submit", "-", fromAmount, "alert")

handleSwap ==
    /\ IF ~Truthy(fromAmount) \/ AtMostZero(parseFloat(fromAmount))
       THEN /\ error' = InvalidAmount
            /\ lastEvent' = Event("submit", "-", fromAmount, "invalid")
            /\ UNCHANGED <<fromAmount, toAmount>>
       ELSE IF fromToken = Null \/ toToken = Null
       THEN /\ error' = SelectBoth
            /\ lastEvent' = Event("submit", "-", fromAmount, "unselected")
            /\ UNCHANGED <<fromAmount, toAmount>>
       ELSE /\ fromAmount' = EmptyString
            /\ toAmount' = EmptyString
            /\ error' = ""
            /\ lastEvent' = Event("submit", "-", fromAmount, "alert")

\* click on the Swap button, which is disabled={!fromAmount || !toAmount || loading}
SubmitClick ==
    /\ UserEvent
    /\ Truthy(fromAmount)
    /\ Truthy(toAmount)
    /\ handleSwap
    /\ UNCHANGED <<data, tokens, loading, fromToken, toToken, swapAnimation,
                   timers, fetchState>>
    /\ UNCHANGED <<walletVars, calcVars, pipeVars>>

InitForm ==
    /\ tokens = << >>
    /\ loading = TRUE
    /\ fromToken = Null
    /\ toToken = Null
    /\ fromAmount = EmptyString
    /\ toAmount = EmptyString
    /\ error = ""
    /\ swapAnimation = FALSE
    /\ timers = << >>
    /\ fetchState = "pending"
    /\ data = << >>
    /\ lastEvent = Event("none", "-", EmptyString, "")
    /\ events = 0

\* what the user may type or paste into an amount field
AmountInputs ==
    { << >>, <<".">>, <<"0">>, <<"2">>, <<".", "0", "0", "0", "0", "0", "1">>,
      <<"-", "1">>, <<"1", ".", "2", ".", "3">>, <<"2", "e", "3">>, <<"x">> }

Sides == {"from", "to"}

\* feeds of the form's specification: one valid observation per currency,
\* listed in the order of their currencies
FormObservations ==
    { [currency |-> "ETH", price |-> <<"4">>, date |-> 1],
      [currency |-> "SWTH", price |-> <<"1">>, date |-> 1],
      [currency |-> "USDC", price |-> <<"1">>, date |-> 1] }

\* observations of the normaliser's specification: each currency with every
\* date and valid price, and with every invalid price at the latest date
FeedCurrencies == {"ETH", "USDC"}

FeedDates == {1, 2, InvalidDate}

ValidPrices == {<<"1">>, <<"2">>}

InvalidPrices == {Undefined, <<"0">>, <<"-", "1">>, <<"x">>}

FeedObservations ==
    [currency : FeedCurrencies, price : ValidPrices, date : FeedDates]
    \cup [currency : FeedCurrencies, price : InvalidPrices, date : {2}]

RECURSIVE SeqsUpTo(_, _)
SeqsUpTo(S, k) ==
    IF k = 0 THEN {<< >>}
    ELSE LET shorter == SeqsUpTo(S, k - 1)
         IN  shorter \cup {Append(q, x) : q \in shorter, x \in S}

FormFeeds ==
    { d \in SeqsUpTo(FormObservations, MaxFormFeed) :
        \A i \in 1..(Len(d) - 1) : localeCompare(d[i].currency, d[i + 1].currency) < 0 }

Feeds == SeqsUpTo(FeedObservations, MaxFeed)

\* the single fetch of the mount effect, over the feeds of the normaliser
NextFeed ==
    \/ fetchState = "pending" /\ \E d \in Feeds : FetchSucceeds(d)
    \/ FetchFails

Next ==
    \/ fetchState = "pending" /\ \E d \in FormFeeds : FetchSucceeds(d)
    \/ FetchFails
    \/ \E side \in Sides, value \in AmountInputs : AmountInput(side, value)
    \/ handleSwapTokens
    \/ SwapTimerFires
    \/ \E side \in Sides, i \in 1..MaxFormFeed : TokenSelect(side, i)
    \/ SubmitClick

----------------------------------------------------------------------------
(* calculateExchange on its own *)

CalcAmounts ==
    { << >>, <<".">>, <<"0">>, <<"x">>, <<"-", "1">>, <<"2">>, <<"1", ".", "5">>,
      <<"1", "0">> }

CalcPrices == {UndefinedNumber, Num(0), Num(1), Num(2), Num(4)}

CalcTokens == {Null} \cup {[currency |-> "ETH", price |-> p] : p \in CalcPrices}

Calculate(amount, from, to) ==
    /\ calcArgs' = [amount |-> amount, from |-> from, to |-> to]
    /\ calcResult' = calculateExchange(amount, from, to)
    /\ UNCHANGED <<walletVars, formVars, pipeVars>>

InitCalc ==
    /\ calcArgs = [amount |-> EmptyString, from |-> Null, to |-> Null]
    /\ calcResult = EmptyString

NextCalc ==
    \E amount \in CalcAmounts, from \in CalcTokens, to \in CalcTokens :
        Calculate(amount, from, to)

----------------------------------------------------------------------------
(* The pipeline run repeatedly on one input snapshot *)

\* the observations and balances of the snapshots: observations of one
\* currency that share a timestamp or lack one, and balances whose
\* blockchains share a priority
PipelineObservations ==
    { o \in FeedObservations :
        \/ o.currency = "ETH" /\ o.date # 2
        \/ o.currency = "USDC" /\ o.price = <<"1">> /\ o.date = 1 }

PipelineBalances ==
    { b \in BalanceInputs :
        b.blockchain \in {"Osmosis", "Zilliqa", "Neo"} /\ b.amount # Num(-1) }

Snapshots ==
    [ data : SeqsUpTo(PipelineObservations, MaxSnapshot),
      balances : SeqsUpTo(PipelineBalances, MaxSnapshot),
      prices : [WalletCurrencies -> WalletPrices] ]

NoSnapshot ==
    [data |-> << >>, balances |-> << >>,
     prices |-> [c \in WalletCurrencies |-> UndefinedNumber]]

\* a pipeline whose tokensWithPrices array outlives the run that filled it
pipelineAccumulating(s) ==
    [ tokens |-> (IF runs = << >> THEN << >> ELSE runs[Len(runs)].tokens)
                     \o tokensWithPrices(s.data),
      rows |-> computeFormattedBalances(s.balances, s.prices) ]

\* one run: priceMap and tokensWithPrices are created by the run, the
\* balance list is mapped, filtered and sorted into new arrays
pipeline(s) ==
    [ tokens |-> tokensWithPrices(s.data),
      rows |-> computeFormattedBalances(s.balances, s.prices) ]

RunPipeline ==
    /\ Len(runs) < MaxRuns
    /\ runs' = Append(runs, pipeline(snapshot))
    /\ UNCHANGED snapshot
    /\ UNCHANGED <<walletVars, formVars, calcVars>>

InitPipeline ==
    /\ snapshot = NoSnapshot
    /\ runs = << >>

NextPipeline == RunPipeline

----------------------------------------------------------------------------
(* Specifications *)

Init == InitWallet /\ InitForm /\ InitCalc /\ InitPipeline

\* a snapshot is taken, nothing else has happened
InitSnapshot ==
    /\ InitWallet /\ InitForm /\ InitCalc
    /\ snapshot \in Snapshots
    /\ runs = << >>

\* the swap form
Spec == Init /\ [][Next]_vars

\* the response of the single request, or its failure, arrives
Fetch == (\E d \in FormFeeds : FetchSucceeds(d)) \/ FetchFails

\* the swap form when the request of the mount effect is answered in the end
SpecFair == Spec /\ WF_vars(Fetch)

\* the feed normaliser over every short feed
SpecFeed == Init /\ [][NextFeed]_vars

\* the wallet-balance list
SpecWallet == Init /\ [][NextWallet]_vars

\* calculateExchange over its argument space
SpecCalc == Init /\ [][NextCalc]_vars

\* the pipeline run MaxRuns times on each snapshot
SpecPipeline == InitSnapshot /\ [][NextPipeline]_vars

----------------------------------------------------------------------------
(* The wallet-balance list: inclusion, order, tie-break, missing price *)

\* the precedence table as the specification states it
RankedBlockchains == {"Osmosis", "Ethereum", "Arbitrum", "Zilliqa", "Neo"}

StatedPrecedence(blockchain) ==
    CASE blockchain = "Osmosis" -> 100
      [] blockchain = "Ethereum" -> 50
      [] blockchain = "Arbitrum" -> 30
      [] blockchain \in {"Zilliqa", "Neo"} -> 20
      [] OTHER -> -99

\* the balance a row was made from
AsBalance(row) ==
    [blockchain |-> row.blockchain, currency |-> row.currency, amount |-> row.amount]

ShouldSurvive(b) == b.blockchain \in RankedBlockchains /\ b.amount.n > 0

Occurrences(s, b) == Cardinality({i \in 1..Len(s) : AsBalance(s[i]) = b})

\* C1: a balance appears in the output if and only if its blockchain is
\* ranked (precedence > -99) and its amount is greater than 0: each such
\* balance appears as often as in the input, every other balance not at all.
InclusionRule ==
    \A b \in BalanceInputs :
        Occurrences(formattedBalances, b) =
            IF ShouldSurvive(b) THEN Occurrences(balances, b) ELSE 0

\* a ranked balance with amount <= 0 and an unranked one with amount > 0 are
\* dropped next to a balance that is kept
InclusionWitness ==
    /\ Len(balances) = 3
    /\ Len(formattedBalances) = 1
    /\ \E i \in 1..3 : balances[i].blockchain \in RankedBlockchains /\ balances[i].amount.n <= 0
    /\ \E i \in 1..3 : balances[i].blockchain = "Unknown" /\ balances[i].amount.n > 0

\* C5: the output holds exactly the surviving balances, each with the
\* precedence of the table, and precedence never increases from one output
\* record to the next.
TotalOrderByPrecedence ==
    /\ Len(formattedBalances) =
           Cardinality({i \in 1..Len(balances) : ShouldSurvive(balances[i])})
    /\ \A i \in 1..Len(formattedBalances) :
           /\ formattedBalances[i].priority = StatedPrecedence(formattedBalances[i].blockchain)
           /\ ShouldSurvive(AsBalance(formattedBalances[i]))
    /\ \A i \in 1..(Len(formattedBalances) - 1) :
           StatedPrecedence(formattedBalances[i].blockchain)
               >= StatedPrecedence(formattedBalances[i + 1].blockchain)

\* Arbitrum, Osmosis, Ethereum come in and Osmosis, Ethereum, Arbitrum go out
TotalOrderWitness ==
    /\ Len(balances) = 3
    /\ balances[1].blockchain = "Arbitrum"
    /\ balances[2].blockchain = "Osmosis"
    /\ balances[3].blockchain = "Ethereum"
    /\ Len(formattedBalances) = 3
    /\ formattedBalances[1].blockchain = "Osmosis"
    /\ formattedBalances[2].blockchain = "Ethereum"
    /\ formattedBalances[3].blockchain = "Arbitrum"

\* the records of one precedence, in the order they have in s
OfPrecedence(s, p) ==
    LET same(r) == ShouldSurvive(AsBalance(r)) /\ StatedPrecedence(r.blockchain) = p
    IN  SelectSeq([i \in 1..Len(s) |-> AsBalance(s[i])], same)

\* C6: the comparator answers 0 for two records of equal precedence, and the
\* surviving records of one precedence stand in the output in the order they
\* had in the input.
DefinedTieBreak ==
    /\ \A i, j \in 1..Len(formattedBalances) :
           formattedBalances[i].priority = formattedBalances[j].priority
               => comparator(formattedBalances[i], formattedBalances[j]) = 0
    /\ \A p \in {100, 50, 30, 20} :
           OfPrecedence(formattedBalances, p) = OfPrecedence(balances, p)

\* Neo arrives before Zilliqa, with Osmosis between them, and stays before it
TieBreakWitness ==
    /\ Len(balances) = 3
    /\ balances[1].blockchain = "Neo"
    /\ balances[2].blockchain = "Osmosis"
    /\ balances[3].blockchain = "Zilliqa"
    /\ Len(formattedBalances) = 3
    /\ formattedBalances[2].blockchain = "Neo"
    /\ formattedBalances[3].blockchain = "Zilliqa"

\* C8: a surviving balance whose currency has no price gets usdValue 0, and
\* the formatting stage keeps every sorted survivor at its position.
MissingPriceDefaultsToZero ==
    /\ Len(formattedBalances) = Len(sortedSurvivors(balances))
    /\ \A i \in 1..Len(formattedBalances) :
           /\ AsBalance(formattedBalances[i]) = AsBalance(sortedSurvivors(balances)[i])
           /\ prices[formattedBalances[i].currency] = UndefinedNumber
                  => formattedBalances[i].usdValue = Num(0)

\* two survivors are listed while their currency has no price
MissingPriceWitness ==
    /\ Len(formattedBalances) = 2
    /\ formattedBalances[1].blockchain # formattedBalances[2].blockchain
    /\ \A i \in 1..2 : prices[formattedBalances[i].currency] = UndefinedNumber
    /\ \A i \in 1..2 : formattedBalances[i].usdValue = Num(0)

----------------------------------------------------------------------------
(* The feed normaliser: freshness, order independence, invalid observations *)

\* an observation whose price is present, parses and is greater than 0
HasValidPrice(o) ==
    /\ o.price # Undefined
    /\ parseFloat(o.price) # NaN
    /\ parseFloat(o.price).n > 0

ValidObservations(c) ==
    {i \in 1..Len(data) : data[i].currency = c /\ HasValidPrice(data[i])}

TokenCurrencies == {tokens[i].currency : i \in 1..Len(tokens)}

\* observation i is at least as fresh as every dated valid observation of
\* its currency
IsFreshest(i) ==
    \A j \in ValidObservations(data[i].currency) :
        data[j].date # InvalidDate
            => data[i].date # InvalidDate /\ data[i].date >= data[j].date

\* C2: for every currency with a valid observation, the token of that
\* currency carries the price of a valid observation whose date is the
\* maximum among the currency's valid observations, wherever it stands in
\* the feed.
FreshnessSelection ==
    fetchState = "done" =>
        \A c \in FeedCurrencies :
            ValidObservations(c) # {} =>
                \E k \in 1..Len(tokens) :
                    /\ tokens[k].currency = c
                    /\ \E i \in ValidObservations(c) :
                           /\ IsFreshest(i)
                           /\ tokens[k].price = parseFloat(data[i].price)

RECURSIVE Orderings(_)
Orderings(S) ==
    IF S = {} THEN {<< >>}
    ELSE UNION {{<<x>> \o q : q \in Orderings(S \ {x})} : x \in S}

Reorderings(d) == {[i \in 1..Len(d) |-> d[q[i]]] : q \in Orderings(1..Len(d))}

\* C3: every ordering of the observations of the feed yields the same token
\* list, also when two observations of a currency share a timestamp and
\* differ in price.
OrderIndependence ==
    fetchState = "done" =>
        \A d \in Reorderings(data) : tokensWithPrices(d) = tokens

\* C4: a token is never made from an observation whose price is 0, negative,
\* missing or unparsable; the token list holds exactly one token, with a
\* price > 0, for each currency that has a valid observation, and none for
\* the other currencies.
InvalidObservationExclusion ==
    fetchState = "done" =>
        /\ \A k \in 1..Len(tokens) :
               /\ tokens[k].price.d > 0
               /\ tokens[k].price.n > 0
               /\ \E i \in ValidObservations(tokens[k].currency) :
                      tokens[k].price = parseFloat(data[i].price)
        /\ TokenCurrencies = {c \in FeedCurrencies : ValidObservations(c) # {}}
        /\ Len(tokens) = Cardinality(TokenCurrencies)

\* one currency has only invalid observations and no token, the other has a
\* valid observation next to an invalid one and a token
InvalidObservationWitness ==
    /\ fetchState = "done"
    /\ Len(data) = 3
    /\ Len(tokens) = 1
    /\ \E i \in 1..3 : data[i].currency \notin TokenCurrencies
    /\ \E i \in 1..3 : data[i].currency \in TokenCurrencies /\ ~HasValidPrice(data[i])

----------------------------------------------------------------------------
(* calculateExchange: the guard of the cross-rate conversion *)

\* the arguments for which the conversion is undefined
ConversionUndefined(a) ==
    \/ a.to = Null
    \/ a.to.price \in {UndefinedNumber, Num(0)}
    \/ a.from = Null
    \/ a.from.price = UndefinedNumber
    \/ a.amount = EmptyString
    \/ parseFloat(a.amount) = NaN
    \/ parseFloat(a.amount).n <= 0

\* C7: the conversion yields the empty result, and never "Infinity" or
\* "NaN", whenever the target token or its price is absent or zero, the
\* source token or its price is absent, or the amount is empty, unparsable,
\* zero or negative; it yields amount * sourcePrice / targetPrice, to six
\* places, only when the amount is positive and both prices are non-zero.
CrossRateGuard ==
    /\ calcResult \notin {NaNString, InfinityString}
    /\ ConversionUndefined(calcArgs) => calcResult = EmptyString
    /\ calcResult # EmptyString =>
           /\ ~ConversionUndefined(calcArgs)
           /\ calcArgs.from.price.n # 0
           /\ calcArgs.to.price.n # 0
           /\ calcResult =
                  ToFixed(FracDivide(FracTimes(parseFloat(calcArgs.amount),
                                               calcArgs.from.price),
                                     calcArgs.to.price), 6)
    /\ (~ConversionUndefined(calcArgs) /\ calcArgs.from.price.n # 0)
           => calcResult # EmptyString

\* a positive amount at a positive source price meets a target price of 0
\* and gives the empty result
CrossRateWitness ==
    /\ calcArgs.amount = <<"2">>
    /\ calcArgs.from # Null
    /\ calcArgs.from.price = Num(2)
    /\ calcArgs.to # Null
    /\ calcArgs.to.price = Num(0)
    /\ calcResult = EmptyString

----------------------------------------------------------------------------
(* The swap form: amount masking and submit validation *)

\* digits with at most one decimal point among them, or nothing at all
IsMaskedAmount(value) ==
    /\ \A i \in 1..Len(value) : value[i] \in Digits \cup {"."}
    /\ Cardinality({i \in 1..Len(value) : value[i] = "."}) <= 1

\* C9: a typed value is forwarded to the amount handler of its side if and
\* only if it is empty or made of digits with at most one decimal point; a
\* forwarded value becomes the amount of its side, and a rejected one leaves
\* fromAmount, toAmount, the tokens and the error as they were.
AmountInputMasking ==
    [][ (events' # events /\ lastEvent'.type = "input") =>
            /\ (lastEvent'.result = "forwarded") <=> IsMaskedAmount(lastEvent'.value)
            /\ lastEvent'.result = "forwarded" =>
                   IF lastEvent'.side = "from"
                   THEN fromAmount' = lastEvent'.value
                   ELSE toAmount' = lastEvent'.value
            /\ lastEvent'.result # "forwarded" =>
                   UNCHANGED <<fromAmount, toAmount, tokens, fromToken, toToken,
                               error, loading, swapAnimation, timers>> ]_vars

\* "1.2.3" was typed over a converted amount and nothing changed
AmountInputWitness ==
    /\ lastEvent.type = "input"
    /\ lastEvent.value = <<"1", ".", "2", ".", "3">>
    /\ lastEvent.result = "rejected"
    /\ fromAmount = <<"2">>
    /\ toAmount # EmptyString

\* the submit is refused in the state it is clicked in
SubmitRefused ==
    \/ fromAmount = EmptyString
    \/ parseFloat(fromAmount) = NaN
    \/ parseFloat(fromAmount).n <= 0
    \/ fromToken = Null
    \/ toToken = Null

\* C10: a submit with an empty or non-positive fromAmount, or with a token
\* not selected, sets a validation message and neither notifies success nor
\* clears the amounts; the success path runs only when fromAmount > 0 and
\* both tokens are selected.
SubmitValidation ==
    [][ (events' # events /\ lastEvent'.type = "submit") =>
            IF SubmitRefused
            THEN /\ error' # ""
                 /\ lastEvent'.result # "alert"
                 /\ UNCHANGED <<fromAmount, toAmount>>
            ELSE /\ lastEvent'.result = "alert"
                 /\ fromAmount' = EmptyString
                 /\ toAmount' = EmptyString
                 /\ error' = "" ]_vars

\* a fromAmount that was rounded to "0.000000" is submitted and refused
SubmitValidationWitness ==
    /\ lastEvent.type = "submit"
    /\ lastEvent.result = "invalid"
    /\ error = InvalidAmount
    /\ fromAmount = <<"0", ".", "0", "0", "0", "0", "0", "0">>
    /\ toAmount # EmptyString

----------------------------------------------------------------------------
(* The swap form: the fetch, its failure and the loading gate *)

\* C11: once the fetch has failed, the load-failure message is surfaced in
\* every later state and no submit has ended in the success notification.
FetchFailureTerminal ==
    fetchState = "failed" =>
        /\ error = FailedToLoad
        /\ ~(lastEvent.type = "submit" /\ lastEvent.result = "alert")

\* the token list is the complete normalisation of the response: one token
\* with a price > 0 for each currency that has a valid observation, in the
\* order of the currencies
CompleteTokenList ==
    /\ TokenCurrencies = {data[i].currency : i \in {j \in 1..Len(data) : HasValidPrice(data[j])}}
    /\ Len(tokens) = Cardinality(TokenCurrencies)
    /\ \A k \in 1..Len(tokens) : GreaterThanZero(tokens[k].price)
    /\ \A k \in 1..(Len(tokens) - 1) :
           localeCompare(tokens[k].currency, tokens[k + 1].currency) < 0

\* nothing of the form has been touched
Untouched ==
    /\ tokens = << >>
    /\ fromToken = Null
    /\ toToken = Null
    /\ fromAmount = EmptyString
    /\ toAmount = EmptyString
    /\ error = ""
    /\ timers = << >>
    /\ events = 0
    /\ lastEvent.type = "none"

\* while loading the request is outstanding and the form is untouched; when
\* not loading the request has completed
LoadingState ==
    IF loading THEN fetchState = "pending" /\ Untouched
               ELSE fetchState \in {"done", "failed"}

\* the only step out of a loading state is the completion of the request,
\* which installs the complete token list or the failure message in the step
\* that ends loading; loading never starts again
LoadingStep ==
    /\ loading =>
           /\ lastEvent'.type = "fetch"
           /\ ~loading'
           /\ \/ fetchState' = "done" /\ CompleteTokenList' /\ error' = ""
              \/ fetchState' = "failed" /\ error' = FailedToLoad /\ tokens' = << >>
    /\ ~loading => ~loading' /\ lastEvent'.type # "fetch" /\ UNCHANGED <<tokens, data, fetchState>>

\* C12: from the initial state until the single fetch completes, loading is
\* true, the token list is empty and no handler runs; loading becomes false
\* exactly once, in the step that installs the complete normalised token
\* list or the failure message, and never becomes true again; when the
\* request is answered in the end, loading eventually becomes false.
LoadingGate ==
    /\ []LoadingState
    /\ [][LoadingStep]_vars
    /\ <>(~loading)

\* the spinner is gone, the three tokens of the response are installed and a
\* handler has run after that
LoadingGateWitness ==
    /\ ~loading
    /\ fetchState = "done"
    /\ Len(tokens) = 3
    /\ CompleteTokenList
    /\ lastEvent.type = "tokenChange"

----------------------------------------------------------------------------
(* The swap form: the selected tokens *)

BothSelected == fromToken # Null /\ toToken # Null

\* C14: in every state after loading in which both tokens are selected,
\* fromToken and toToken are different currencies.
DistinctSides ==
    (~loading /\ BothSelected) => fromToken.currency # toToken.currency

\* C15: after a token change handled with a non-empty fromAmount, toAmount
\* is the conversion of fromAmount from the resulting fromToken to the
\* resulting toToken, also when the chosen token was on the opposite side
\* and the two sides are exchanged.
TokenChangeConsistency ==
    [][ (events' # events /\ lastEvent'.type = "tokenChange" /\ Truthy(fromAmount)) =>
            toAmount' = calculateExchange(fromAmount', fromToken', toToken') ]_vars

\* C16: when the timer of a direction swap fires, the tokens and the amounts
\* of the two sides of the state just before it are exchanged, whatever was
\* handled between the click and the timer.
DirectionSwap ==
    [][ Len(timers') < Len(timers) =>
            /\ fromToken' = toToken
            /\ toToken' = fromToken
            /\ fromAmount' = toAmount
            /\ toAmount' = fromAmount ]_vars

\* C17: once both tokens are selected they stay selected in every later
\* state, whatever is handled; and whenever the feed yields at least two
\* tokens both are selected and "Please select both tokens" is never shown.
SelectionKept ==
    /\ [][BothSelected => BothSelected']_vars
    /\ [](Len(tokens) >= 2 =>
             /\ BothSelected
             /\ error # SelectBoth
             /\ lastEvent.result # "unselected")

\* a direction swap has fired after token changes on both sides, and both
\* tokens are still selected
SelectionKeptWitness ==
    /\ Len(tokens) = 3
    /\ lastEvent.type = "timer"
    /\ events >= 3
    /\ BothSelected
    /\ fromToken.currency = "ETH"
    /\ toToken.currency = "SWTH"

----------------------------------------------------------------------------
(* The pipeline: repeated runs *)

====
